---- MODULE Spec2Model ----
(***************************************************************************)
(* fornax cloud-access API: the per-row access-point registry              *)
(* (fornax/access.py AccessManager), the access points (fornax/prem.py,    *)
(* fornax/aws.py) and the fallback download (DataHandler.download).        *)
(*                                                                         *)
(* Python values are encoded as follows.  None is the string "None" where  *)
(* the other values are strings (identifiers, urls, exception names).  An  *)
(* entry of the list DataHandler.download returns is a record PyNone,      *)
(* PyStr(s) or PyPath(target).  The pair is_accessible() returns is the    *)
(* TLA+ tuple <<accessible, msg>>.                                         *)
(***************************************************************************)
EXTENDS Integers, Sequences, FiniteSets, TLC

VARIABLES
    access_manager,  \* DataHandler.access_manager: one AccessManager per row
    remote,          \* the world: what a HEAD request on a target answers now
    local,           \* the working directory: state of the local copy of an s3 object
    call,            \* the last operation invoked on the handler and its outcome
    nadds,           \* add_access_point calls made so far (bounded)
    built,           \* the last construction or discovery call and its outcome
    heads,           \* per access point instance: HEAD requests issued so far
    aws,             \* the AWSAccessPoint objects the caller built, and the last call on them
    xfer             \* the transfer of an aws download: its threads and its progress display

vars == <<access_manager, remote, local, call, nadds, built, heads, aws, xfer>>

\* ------------------------------------------------------------------ bounds
NRows == 2
MaxAdds == 3
MaxListLen == 2
MaxHandlerAdds == 1
MaxOptions == 2
MaxHeads == 2
MaxKeyLen == 2
MaxPoints == 2
MaxSize == 2
NThreads == 2
MaxCallbacks == 2
MaxChunk == 2

\* ------------------------------------------------------------- value sets
None == "None"

Urls == {"http://x/a", "http://x/b"}
Uris == {"s3://b/k1", "s3://b/k2"}
Targets == Urls \cup Uris

\* what the remote end answers to a HEAD request: the object is there, it is
\* not, or the request itself fails (no route, time-out, denied)
Statuses == {"200", "404", "neterr"}

Sources == {"prem", "aws"}

PyNone == [t |-> "None", v |-> None]
PyStr(s) == [t |-> "str", v |-> s]
PyPath(target) == [t |-> "path", v |-> target]

\* ---------------------------------------------------------- access points

\* the value of the field _accessible: None, or the cached pair
NotProbed == [isNone |-> TRUE, val |-> <<FALSE, "">>]
Cached(pair) == [isNone |-> FALSE, val |-> pair]

\* AccessPoint(url): the class attribute name and the three fields __init__
\* sets.  oid is the identity of the Python object (0 until the instance is
\* handed to a manager); two references to one instance carry one oid.
AccessPoint(url) ==
    [cls |-> "AccessPoint", name |-> "prem", id |-> url, url |-> url,
     s3_uri |-> None, _accessible |-> NotProbed, oid |-> 0]

\* AWSAccessPoint(s3_pointer): the class sets no name of its own, so it
\* inherits name = 'prem'; __init__ calls super().__init__(url=None), which
\* sets url = id = None, and assigns type, s3_uri, s3_bucket_name, s3_key,
\* region and s3_resource, never id.
AWSAccessPoint(s3_pointer) ==
    [cls |-> "AWSAccessPoint", name |-> AccessPoint(None).name,
     id |-> AccessPoint(None).id, url |-> AccessPoint(None).url,
     s3_uri |-> s3_pointer, _accessible |-> NotProbed, oid |-> 0]

\* a subclass of AccessPoint that only overrides the class attribute name
\* (add_access_point accepts "AccessPoint, a subclass, or a list of them")
SubclassPoint(name, url) ==
    [AccessPoint(url) EXCEPT !.cls = "Subclass", !.name = name]

\* a value that is no AccessPoint at all
NotAnAccessPoint == [cls |-> "object", name |-> None, id |-> None, url |-> None,
                     s3_uri |-> None, _accessible |-> NotProbed, oid |-> 0]

isinstance_AccessPoint(x) == x.cls \in {"AccessPoint", "AWSAccessPoint", "Subclass"}

\* the target a probe or a transfer of the point talks to
TargetOf(ap) == IF ap.cls = "AWSAccessPoint" THEN ap.s3_uri ELSE ap.url

\* ACCESS_POINTS and class_mapper = {ap.name: ap for ap in ACCESS_POINTS}:
\* a dict comprehension, so a later class with the same name replaces an
\* earlier one.
ACCESS_POINTS == <<"AccessPoint", "AWSAccessPoint">>

ClassName(cls) == IF cls = "AccessPoint" THEN AccessPoint(None).name
                  ELSE AWSAccessPoint(None).name

class_mapper ==
    [n \in {ClassName(ACCESS_POINTS[i]) : i \in DOMAIN ACCESS_POINTS} |->
        ACCESS_POINTS[CHOOSE i \in DOMAIN ACCESS_POINTS :
            /\ ClassName(ACCESS_POINTS[i]) = n
            /\ \A j \in DOMAIN ACCESS_POINTS :
                   ClassName(ACCESS_POINTS[j]) = n => j <= i]]

\* Python's truth value of a tuple: a tuple is true unless it is empty
bool_tuple(t) == Len(t) # 0

\* AccessPoint.is_accessible (inherited by a subclass that does not override
\* it).  requests.head raises when the request itself fails (and for
\* url = None); the method catches nothing.
AccessPoint_is_accessible(self, rem) ==
    IF self._accessible.isNone
    THEN IF self.url = None THEN [exc |-> "MissingSchema", value |-> <<>>, self |-> self]
         ELSE IF rem[self.url] = "neterr"
              THEN [exc |-> "ConnectionError", value |-> <<>>, self |-> self]
         ELSE LET accessible == rem[self.url] = "200"
                  msg == IF ~accessible THEN "Not Found" ELSE ""
                  new == [self EXCEPT !._accessible = Cached(<<accessible, msg>>)]
              IN [exc |-> None, value |-> new._accessible.val, self |-> new]
    ELSE [exc |-> None, value |-> self._accessible.val, self |-> self]

\* AWSAccessPoint.is_accessible: head_object inside try / except Exception
AWSAccessPoint_is_accessible(self, rem) ==
    IF self._accessible.isNone
    THEN LET pair == IF rem[self.s3_uri] = "200" THEN <<TRUE, "">>
                     ELSE <<FALSE, rem[self.s3_uri]>>
             new == [self EXCEPT !._accessible = Cached(pair)]
         IN [exc |-> None, value |-> new._accessible.val, self |-> new]
    ELSE [exc |-> None, value |-> self._accessible.val, self |-> self]

\* method dispatch on the class of the instance
is_accessible(self, rem) ==
    IF self.cls = "AWSAccessPoint" THEN AWSAccessPoint_is_accessible(self, rem)
    ELSE AccessPoint_is_accessible(self, rem)

\* AccessPoint.download(cache=True).  env.bound tells whether the module
\* name log, which prem.py never binds, resolves; env.fails tells whether
\* the transfer itself fails.
AccessPoint_download(self, rem, loc, env) ==
    IF self.url = None THEN [exc |-> "ValueError", value |-> PyNone, local |-> loc]
    ELSE IF ~env.bound THEN [exc |-> "NameError", value |-> PyNone, local |-> loc]
    ELSE IF rem[self.url] # "200" \/ env.fails
         THEN [exc |-> "TransferError", value |-> PyNone, local |-> loc]
    ELSE [exc |-> None, value |-> PyPath(self.url), local |-> loc]

\* AWSAccessPoint.download(cache=True): head_object for the content length,
\* the cached-file test (os is never imported by aws.py), then the transfer.
\* The cached branch ends in a bare return, i.e. returns None.
AWSAccessPoint_download(self, rem, loc, env) ==
    IF rem[self.s3_uri] # "200" THEN [exc |-> "ClientError", value |-> PyNone, local |-> loc]
    ELSE IF ~env.bound THEN [exc |-> "NameError", value |-> PyNone, local |-> loc]
    ELSE IF loc[self.s3_uri] = "match" THEN [exc |-> None, value |-> PyNone, local |-> loc]
    ELSE IF env.fails
         THEN [exc |-> "TransferError", value |-> PyNone, local |-> loc]
    ELSE [exc |-> None, value |-> PyPath(self.s3_uri),
          local |-> [loc EXCEPT ![self.s3_uri] = "match"]]

ap_download(self, rem, loc, env) ==
    IF self.cls = "AWSAccessPoint" THEN AWSAccessPoint_download(self, rem, loc, env)
    ELSE AccessPoint_download(self, rem, loc, env)

\* ---------------------------------------------------------- AccessManager

\* AccessManager.__init__(access_point).  A dict is a function whose DOMAIN
\* is the set of its keys.
AccessManager(access_point) ==
    [access_points |-> (access_point.name :> <<access_point>>),
     default_access_point |-> (access_point.name :> access_point)]

\* AccessManager.ids: the id of every point of every provider's list.  Its
\* only use is the membership test of add_access_point, so the list is kept
\* as the set of its elements.
ids(self) ==
    UNION {{self.access_points[k][i].id : i \in DOMAIN self.access_points[k]} :
              k \in DOMAIN self.access_points}

\* add_one_access_point without the membership test of line 81
add_one_access_point_unchecked(self, access_point) ==
    LET ap_name == access_point.name
        created == IF ap_name \notin DOMAIN self.access_points
                   THEN [self EXCEPT !.access_points = @ @@ (ap_name :> <<>>)]
                   ELSE self
    IN [created EXCEPT !.access_points[ap_name] = Append(@, access_point)]

\* add_one_access_point putting the new point in front of its list
add_one_access_point_in_front(self, access_point) ==
    LET ap_name == access_point.name
        created == IF ap_name \notin DOMAIN self.access_points
                   THEN [self EXCEPT !.access_points = @ @@ (ap_name :> <<>>)]
                   ELSE self
    IN IF access_point.id \notin ids(created)
       THEN [created EXCEPT !.access_points[ap_name] = <<access_point>> \o @]
       ELSE created

\* the else branch of add_access_point, lines 78-82: one access point
add_one_access_point(self, access_point) ==
    LET ap_name == access_point.name
        created == IF ap_name \notin DOMAIN self.access_points
                   THEN [self EXCEPT !.access_points = @ @@ (ap_name :> <<>>)]
                   ELSE self
    IN IF access_point.id \notin ids(created)
       THEN [created EXCEPT !.access_points[ap_name] = Append(@, access_point)]
       ELSE created

\* AccessManager.add_access_point(access_point).  arg.isList tells a list
\* from a single value, which is handled as the one element of arg.items; a
\* list is walked in order and the walk stops at the
\* first element that is no AccessPoint, keeping what was added before it.
\* Returns the manager and the exception raised, if any.  (The raise
\* statement formats the unbound name base_access, so what surfaces is a
\* NameError in place of the ValueError; either way the call raises.)
RECURSIVE add_access_point_from(_, _, _)
add_access_point_from(self, items, i) ==
    IF i > Len(items) THEN [self |-> self, exc |-> None]
    ELSE IF ~isinstance_AccessPoint(items[i]) THEN [self |-> self, exc |-> "NameError"]
    ELSE add_access_point_from(add_one_access_point(self, items[i]), items, i + 1)

add_access_point(self, arg) == add_access_point_from(self, arg.items, 1)

\* ------------------------------------------------------------ DataHandler

NoSel == [list |-> None, idx |-> 0]

\* The(S) is the element of the one-element set S.  The({e : x \in {v}}) is
\* "e with x bound to the value of v": v is computed once, where a LET
\* would compute it at every place e uses x.
The(S) == CHOOSE y \in S : TRUE

\* a scan loop without the break: every point of the list is probed
RECURSIVE scan_all(_, _, _)
scan_all(aps, i, rem) ==
    IF i > Len(aps) THEN [sel |-> 0, aps |-> aps, exc |-> None, probed |-> <<>>]
    ELSE The({
        IF r.exc # None
        THEN [sel |-> 0, aps |-> aps, exc |-> r.exc, probed |-> <<i>>]
        ELSE The({[rest EXCEPT !.probed = <<i>> \o @,
                               !.sel = IF bool_tuple(r.value) THEN i ELSE @] :
                     rest \in {scan_all([aps EXCEPT ![i] = r.self], i + 1, rem)}})
        : r \in {is_accessible(aps[i], rem)}})

\* the two scan loops of download (lines 319-322 and 327-330):
\*     for _ap in <list>: if _ap.is_accessible(): access_point = _ap; break
\* The condition is the truth value of the pair is_accessible returns.
\* sel is the index of the point the loop broke at (0: none), aps the list
\* with the caches the probes wrote, probed the indices probed in order.
RECURSIVE scan(_, _, _)
scan(aps, i, rem) ==
    IF i > Len(aps) THEN [sel |-> 0, aps |-> aps, exc |-> None, probed |-> <<>>]
    ELSE The({
        IF r.exc # None
        THEN [sel |-> 0, aps |-> aps, exc |-> r.exc, probed |-> <<i>>]
        ELSE IF bool_tuple(r.value)
        THEN [sel |-> i, aps |-> [aps EXCEPT ![i] = r.self], exc |-> None,
              probed |-> <<i>>]
        ELSE The({[rest EXCEPT !.probed = <<i>> \o @] :
                     rest \in {scan([aps EXCEPT ![i] = r.self], i + 1, rem)}})
        : r \in {is_accessible(aps[i], rem)}})

\* default_access_point refers to the very objects the lists hold: a cache
\* written through the list is seen through default_access_point as well
SyncDefault(mgr) ==
    [mgr EXCEPT !.default_access_point =
        [k \in DOMAIN @ |->
            LET same == UNION {{mgr.access_points[n][i] :
                                   i \in {j \in DOMAIN mgr.access_points[n] :
                                             mgr.access_points[n][j].oid = @[k].oid}} :
                               n \in DOMAIN mgr.access_points}
            IN IF same = {} THEN @[k] ELSE CHOOSE p \in same : TRUE]]

Tag(list, probed) == [j \in DOMAIN probed |-> [list |-> list, idx |-> probed[j]]]

\* a list without its i-th element
without(aps, i) ==
    [j \in 1..(Len(aps) - 1) |-> IF j < i THEN aps[j] ELSE aps[j + 1]]

\* a row's iteration that, when a probe raises, also drops the point it
\* probed last from its list
row_raise_pruning(mgr, e, probed, loc) ==
    [exc |-> e, path |-> PyNone,
     mgr |-> IF probed = <<>> THEN SyncDefault(mgr)
             ELSE [mgr EXCEPT !.access_points[probed[Len(probed)].list] =
                                  without(@, probed[Len(probed)].idx)],
     local |-> loc, sel |-> NoSel, probed |-> probed, attempts |-> <<>>]

\* what an iteration of the row loop leaves when it raises e
row_raise(mgr, e, probed, loc) ==
    [exc |-> e, path |-> PyNone, mgr |-> SyncDefault(mgr), local |-> loc,
     sel |-> NoSel, probed |-> probed, attempts |-> <<>>]

\* lines 332-339: path = None; if access_point is not None: path =
\* access_point.id under dryrun, access_point.download() otherwise
row_path(mgr, sel, probed, a, loc) ==
    IF sel = NoSel
    THEN [exc |-> None, path |-> PyNone, mgr |-> SyncDefault(mgr), local |-> loc,
          sel |-> sel, probed |-> probed, attempts |-> <<>>]
    ELSE IF a.dryrun
    THEN [exc |-> None,
          path |-> IF mgr.access_points[sel.list][sel.idx].id = None THEN PyNone
                   ELSE PyStr(mgr.access_points[sel.list][sel.idx].id),
          mgr |-> SyncDefault(mgr), local |-> loc,
          sel |-> sel, probed |-> probed, attempts |-> <<>>]
    ELSE The({[exc |-> d.exc, path |-> d.value, mgr |-> SyncDefault(mgr),
               local |-> d.local, sel |-> sel, probed |-> probed,
               attempts |-> <<sel>>] :
                 d \in {ap_download(mgr.access_points[sel.list][sel.idx], a.rem, loc,
                                    [bound |-> a.env.bound,
                                     fails |-> a.irow \in a.env.failing])}})

\* lines 324-330: the scan of the prem list, made when the source is not
\* prem, the first scan selected nothing and fallback is set
row_fallback(mgr, s1, a, loc) ==
    IF ~(a.source # "prem" /\ s1.sel = 0 /\ a.fallback)
    THEN row_path(mgr,
                  IF s1.sel # 0 THEN [list |-> a.source, idx |-> s1.sel] ELSE NoSel,
                  Tag(a.source, s1.probed), a, loc)
    ELSE IF "prem" \notin DOMAIN mgr.access_points
    THEN row_raise(mgr, "KeyError", Tag(a.source, s1.probed), loc)
    ELSE The({
        IF s2.exc # None
        THEN row_raise([mgr EXCEPT !.access_points["prem"] = s2.aps], s2.exc,
                       Tag(a.source, s1.probed) \o Tag("prem", s2.probed), loc)
        ELSE row_path([mgr EXCEPT !.access_points["prem"] = s2.aps],
                      IF s2.sel # 0 THEN [list |-> "prem", idx |-> s2.sel] ELSE NoSel,
                      Tag(a.source, s1.probed) \o Tag("prem", s2.probed), a, loc)
        : s2 \in {scan(mgr.access_points["prem"], 1, a.rem)}})

\* one iteration of the row loop of download, lines 318-339.  Besides the
\* path and the exception, the result tells which point was selected, which
\* points were probed and on which points download() was invoked (attempts).
download_row(mgr, a, loc) ==
    IF a.source \notin DOMAIN mgr.access_points
    THEN row_raise(mgr, "KeyError", <<>>, loc)
    ELSE The({
        IF s1.exc # None
        THEN row_raise([mgr EXCEPT !.access_points[a.source] = s1.aps], s1.exc,
                       Tag(a.source, s1.probed), loc)
        ELSE row_fallback([mgr EXCEPT !.access_points[a.source] = s1.aps], s1, a, loc)
        : s1 \in {scan(mgr.access_points[a.source], 1, a.rem)}})

\* the row loop, lines 316-341: an exception leaves the loop and the call
RECURSIVE download_rows(_, _, _)
download_rows(st, irow, a) ==
    IF irow > Len(st.access_manager) THEN st
    ELSE The({
        The({IF st1.exc # None THEN st1 ELSE download_rows(st1, irow + 1, a) :
             st1 \in {[access_manager |-> [st.access_manager EXCEPT ![irow] = r.mgr],
                       local |-> r.local,
                       exc |-> r.exc,
                       local_paths |-> IF r.exc = None
                                       THEN Append(st.local_paths, r.path)
                                       ELSE st.local_paths,
                       rows |-> Append(st.rows, [sel |-> r.sel, probed |-> r.probed,
                                                 attempts |-> r.attempts,
                                                 exc |-> r.exc])]}})
        : r \in {download_row(st.access_manager[irow], [a EXCEPT !.irow = irow],
                              st.local)}})

\* DataHandler.download(source, fallback, dryrun=...), lines 290-341
DataHandler_download(am, a, loc) ==
    LET st0 == [access_manager |-> am, local |-> loc, exc |-> None,
                local_paths |-> <<>>, rows |-> <<>>]
    IN IF a.source \notin DOMAIN class_mapper
       THEN [st0 EXCEPT !.exc = "ValueError"]
       ELSE download_rows(st0, 1, a)

\* ------------------------------------------------- DataHandler.__init__

\* A data product (pyvo DALResults) is the record
\*   fields : the names of its url-bearing columns (fieldnames)
\*   json   : NoColumn, or the parsed cloud_access document of every row
\*   dl     : the datalink service description (see process_datalinks)
\* The column sia1col is the one tagged VOX:Image_AccessReference, refcol
\* the one tagged meta.ref.url; access_url carries no tag.
UrlColumns == {"sia1col", "access_url", "refcol"}

Ucd(field) ==
    IF field = "sia1col" THEN "VOX:Image_AccessReference"
    ELSE IF field = "refcol" THEN "meta.ref.url"
    ELSE ""

\* the url the column holds (the same in every row)
ColumnUrl(field) == IF field = "access_url" THEN "http://x/b" ELSE "http://x/a"

\* dal_product.fieldname_with_ucd(ucd): the name of the field with the tag,
\* None when there is none
fieldname_with_ucd(product, ucd) ==
    IF \E f \in product.fields : Ucd(f) = ucd
    THEN CHOOSE f \in product.fields : Ucd(f) = ucd
    ELSE None

\* a resolution that looks for the column named access_url before the
\* tagged columns
resolve_url_column_name_first(product, url_column) ==
    IF url_column # None /\ url_column \notin product.fields
    THEN [exc |-> "ValueError", url_column |-> url_column]
    ELSE LET found == IF url_column # None THEN url_column
                      ELSE IF "access_url" \in product.fields THEN "access_url"
                      ELSE IF fieldname_with_ucd(product, "VOX:Image_AccessReference") # None
                      THEN fieldname_with_ucd(product, "VOX:Image_AccessReference")
                      ELSE fieldname_with_ucd(product, "meta.ref.url")
         IN IF found = None
            THEN [exc |-> "ValueError", url_column |-> None]
            ELSE [exc |-> None, url_column |-> found]

\* a resolution that falls back to the search when the product does not
\* have the column named explicitly
resolve_url_column_lenient(product, url_column) ==
    LET sia1 == fieldname_with_ucd(product, "VOX:Image_AccessReference")
        found == IF url_column # None /\ url_column \in product.fields THEN url_column
                 ELSE IF sia1 # None THEN sia1
                 ELSE IF "access_url" \in product.fields THEN "access_url"
                 ELSE fieldname_with_ucd(product, "meta.ref.url")
    IN IF found = None
       THEN [exc |-> "ValueError", url_column |-> None]
       ELSE [exc |-> None, url_column |-> found]

\* lines 137-155 of __init__: the column with the direct url.  Returns the
\* column and the exception raised, if any.
resolve_url_column(product, url_column) ==
    IF url_column # None /\ url_column \notin product.fields
    THEN [exc |-> "ValueError", url_column |-> url_column]
    ELSE LET sia1 == fieldname_with_ucd(product, "VOX:Image_AccessReference")
             found == IF url_column # None THEN url_column
                      ELSE IF sia1 # None THEN sia1
                      ELSE IF "access_url" \in product.fields THEN "access_url"
                      ELSE fieldname_with_ucd(product, "meta.ref.url")
         IN IF found = None
            THEN [exc |-> "ValueError", url_column |-> None]
            ELSE [exc |-> None, url_column |-> found]

\* the keys of class_mapper in the order a loop over the dict meets them: a
\* key keeps the place of its first insertion
RECURSIVE class_mapper_keys_from(_)
class_mapper_keys_from(i) ==
    IF i > Len(ACCESS_POINTS) THEN <<>>
    ELSE (IF \A j \in 1..(i - 1) :
                ClassName(ACCESS_POINTS[j]) # ClassName(ACCESS_POINTS[i])
          THEN <<ClassName(ACCESS_POINTS[i])>> ELSE <<>>)
         \o class_mapper_keys_from(i + 1)

class_mapper_keys == class_mapper_keys_from(1)

\* A parameter object of the cloud_access document is a dict with one key:
\* [kw |-> the key, v |-> its value].  A provider's entry of the document is
\* [isList, items]: one parameter object, or a list of them.
One(obj) == [isList |-> FALSE, items |-> <<obj>>]
Many(objs) == [isList |-> TRUE, items |-> objs]

\* APclass(**ap_params): AccessPoint.__init__(self, url) and
\* AWSAccessPoint.__init__(self, s3_pointer, profile=None, region=None); a
\* keyword the signature does not have, or a missing required one, is a
\* TypeError
new_access_point(cls, params) ==
    IF cls = "AWSAccessPoint" /\ params.kw = "s3_pointer"
    THEN [exc |-> None, ap |-> AWSAccessPoint(params.v)]
    ELSE IF cls = "AccessPoint" /\ params.kw = "url"
    THEN [exc |-> None, ap |-> AccessPoint(params.v)]
    ELSE [exc |-> "TypeError", ap |-> NotAnAccessPoint]

\* process_json_column, lines 209-224: the loop over class_mapper.items()
\* for the document desc of row irow, from the j-th key on.  A list has no
\* method update (line 222).
RECURSIVE json_providers(_, _, _, _)
json_providers(mgr, desc, j, irow) ==
    IF j > Len(class_mapper_keys) THEN [exc |-> None, mgr |-> mgr]
    ELSE IF class_mapper_keys[j] \notin DOMAIN desc
    THEN json_providers(mgr, desc, j + 1, irow)
    ELSE IF desc[class_mapper_keys[j]].isList
    THEN [exc |-> "AttributeError", mgr |-> mgr]
    ELSE The({
        IF c.exc # None THEN [exc |-> c.exc, mgr |-> mgr]
        ELSE json_providers(
                 add_access_point(mgr, One([c.ap EXCEPT !.oid = NRows * j + irow])).self,
                 desc, j + 1, irow)
        : c \in {new_access_point(class_mapper[class_mapper_keys[j]],
                                  desc[class_mapper_keys[j]].items[1])}})

\* process_json_column, lines 206-224: the loop over the rows
RECURSIVE json_rows(_, _, _)
json_rows(am, json, irow) ==
    IF irow > Len(am) THEN [exc |-> None, access_manager |-> am]
    ELSE The({
        IF r.exc # None
        THEN [exc |-> r.exc, access_manager |-> [am EXCEPT ![irow] = r.mgr]]
        ELSE json_rows([am EXCEPT ![irow] = r.mgr], json, irow + 1)
        : r \in {json_providers(am[irow], json[irow], 1, irow)}})

\* DataHandler.process_json_column(dal_product), lines 189-224
process_json_column(am, product) ==
    IF "cloud_access" \notin product.fields
    THEN [exc |-> None, access_manager |-> am]
    ELSE json_rows(am, product.json, 1)

\* The datalink service description of a product is the record
\*   present : the product has the ad-hoc service (get_adhocservice_by_ivoid
\*             returns it; otherwise it raises DALServiceError)
\*   params  : the names of the service's input parameters besides the ID
\*             parameter, which refers to the product's id column
\*   options : the option values of the selectable parameter, in order
\*   matched : a secondary query returns one link for every row of the
\*             product (TRUE) or an empty table (FALSE)
\* An option value is the sequence of its ':'-separated segments.

\* an option value taken as it is, with no alias replaced
keep_option(option) == option

\* option.replace('main-server', 'prem'), on segments
replace_main_server(option) ==
    [i \in DOMAIN option |-> IF option[i] = "main-server" THEN "prem" ELSE option[i]]

\* the access_url of the links a secondary query returns
DatalinkUrl == "s3://b/k2"

\* process_datalinks, lines 282-287: the points of the rows for one executed
\* query, from row irow on.  ApClass(uri=..., **ap_meta) passes the keyword
\* uri.
RECURSIVE datalink_rows(_, _, _, _)
datalink_rows(am, cls, matched, irow) ==
    IF irow > Len(am) THEN [exc |-> None, access_manager |-> am]
    ELSE IF ~matched THEN datalink_rows(am, cls, matched, irow + 1)
    ELSE The({
        IF c.exc # None THEN [exc |-> c.exc, access_manager |-> am]
        ELSE datalink_rows(
                 [am EXCEPT ![irow] = add_access_point(@,
                      One([c.ap EXCEPT !.oid = NRows * (Len(class_mapper_keys) + 1) + irow])).self],
                 cls, matched, irow + 1)
        : c \in {new_access_point(cls, [kw |-> "uri", v |-> DatalinkUrl])}})

\* process_datalinks, lines 264-287: the loop over the options, from the
\* k-th on.  queries is the list of the options a secondary query was
\* executed for; failq is the set of options whose query fails
\* (query.execute() raises).
RECURSIVE datalink_options(_, _, _, _, _)
datalink_options(am, dl, failq, k, queries) ==
    IF k > Len(dl.options) THEN [exc |-> None, access_manager |-> am, queries |-> queries]
    ELSE IF replace_main_server(dl.options[k]) = <<"prem">>
    THEN datalink_options(am, dl, failq, k + 1, queries)
    ELSE IF replace_main_server(dl.options[k]) \in failq
    THEN [exc |-> "DALServiceError", access_manager |-> am,
          queries |-> Append(queries, replace_main_server(dl.options[k]))]
    ELSE IF replace_main_server(dl.options[k])[1] \notin DOMAIN class_mapper
    THEN datalink_options(am, dl, failq, k + 1,
                          Append(queries, replace_main_server(dl.options[k])))
    ELSE The({
        IF r.exc # None
        THEN [exc |-> r.exc, access_manager |-> r.access_manager,
              queries |-> Append(queries, replace_main_server(dl.options[k]))]
        ELSE datalink_options(r.access_manager, dl, failq, k + 1,
                              Append(queries, replace_main_server(dl.options[k])))
        : r \in {datalink_rows(am, class_mapper[replace_main_server(dl.options[k])[1]],
                               dl.matched, 1)}})

\* DataHandler.process_datalinks(dal_product), lines 227-287
process_datalinks(am, product, failq) ==
    IF ~product.dl.present
    THEN [exc |-> None, access_manager |-> am, queries |-> <<>>]
    ELSE IF "source" \notin product.dl.params
    THEN [exc |-> None, access_manager |-> am, queries |-> <<>>]
    ELSE datalink_options(am, product.dl, failq, 1, <<>>)

\* DataHandler.__init__(data_product, url_column), lines 98-181, for a
\* data_product of an accepted type.  cenv.meta tells whether the classes
\* of class_mapper have the attribute access_meta line 161 calls; prem.py
\* and aws.py define none, so with the modules as they are cenv.meta = FALSE
\* and line 161 raises AttributeError.  Where they have it, it is taken to
\* return no keywords.  step is where the construction ended; when it
\* raises, no handler exists and access_manager holds what had been built.
DataHandler_init(product, url_column, cenv) ==
    The({
        IF c.exc # None
        THEN [exc |-> c.exc, step |-> "column", url_column |-> c.url_column,
              access_manager |-> <<>>, queries |-> <<>>]
        ELSE IF ~cenv.meta
        THEN [exc |-> "AttributeError", step |-> "meta", url_column |-> c.url_column,
              access_manager |-> <<>>, queries |-> <<>>]
        ELSE The({
            IF j.exc # None
            THEN [exc |-> j.exc, step |-> "json", url_column |-> c.url_column,
                  access_manager |-> j.access_manager, queries |-> <<>>]
            ELSE The({
                [exc |-> d.exc, step |-> IF d.exc # None THEN "datalinks" ELSE "ready",
                 url_column |-> c.url_column, access_manager |-> d.access_manager,
                 queries |-> d.queries]
                : d \in {process_datalinks(j.access_manager, product, cenv.failq)}})
            : j \in {process_json_column(
                         [r \in 1..NRows |->
                             AccessManager([AccessPoint(ColumnUrl(c.url_column))
                                               EXCEPT !.oid = r])],
                         product)}})
        : c \in {resolve_url_column(product, url_column)}})

\* ------------------------------------------------ extractors (_fornax.py)

\* PROVIDERS: the supported providers and the names of their parameters
PROVIDERS == [prem |-> <<"url">>, aws |-> <<"uri", "bucket_name", "key">>]

\* _process_json_column, lines 356-385: the loop over the rows, from row
\* irow on.  out is rows_access_points.  A row without the column appends
\* one more (empty) list to out.
RECURSIVE fornax_json_rows(_, _, _, _)
fornax_json_rows(product, provider, irow, out) ==
    IF irow > Len(product.json) THEN out
    ELSE IF "cloud_access" \notin product.fields
    THEN fornax_json_rows(product, provider, irow + 1, Append(out, <<>>))
    ELSE IF provider \notin DOMAIN product.json[irow]
    THEN fornax_json_rows(product, provider, irow + 1, out)
    ELSE fornax_json_rows(product, provider, irow + 1,
             [out EXCEPT ![irow] = @ \o product.json[irow][provider].items])

\* _process_json_column(products, provider), lines 325-387, for products a
\* list of rows
fornax_process_json_column(product, provider) ==
    IF provider \notin DOMAIN PROVIDERS
    THEN [exc |-> "ValueError", out |-> <<>>, queries |-> <<>>]
    ELSE [exc |-> None,
          out |-> fornax_json_rows(product, provider, 1,
                                   [r \in DOMAIN product.json |-> <<>>]),
          queries |-> <<>>]

\* _process_cloud_datalinks, lines 503-528: the loop over the options, from
\* the k-th on
RECURSIVE fornax_datalink_options(_, _, _, _, _, _)
fornax_datalink_options(dl, provider, failq, k, out, queries) ==
    IF k > Len(dl.options) THEN [exc |-> None, out |-> out, queries |-> queries]
    ELSE IF dl.options[k][1] # provider
    THEN fornax_datalink_options(dl, provider, failq, k + 1, out, queries)
    ELSE IF dl.options[k] \in failq
    THEN [exc |-> "DALServiceError", out |-> <<>>,
          queries |-> Append(queries, dl.options[k])]
    ELSE fornax_datalink_options(dl, provider, failq, k + 1,
             IF dl.matched
             THEN [r \in DOMAIN out |->
                      Append(out[r], [kw |-> PROVIDERS[provider][1], v |-> DatalinkUrl])]
             ELSE out,
             Append(queries, dl.options[k]))

\* _process_cloud_datalinks(products, provider), lines 439-530, for
\* products a list of Record
fornax_process_cloud_datalinks(product, provider, failq) ==
    IF provider \notin DOMAIN PROVIDERS
    THEN [exc |-> "ValueError", out |-> <<>>, queries |-> <<>>]
    ELSE IF ~product.dl.present \/ "provider" \notin product.dl.params
    THEN [exc |-> None, out |-> [r \in DOMAIN product.json |-> <<>>], queries |-> <<>>]
    ELSE fornax_datalink_options(product.dl, provider, failq, 1,
                                 [r \in DOMAIN product.json |-> <<>>], <<>>)

\* ------------------------------------------- AWSAccessPoint.__init__

\* A Python str is the sequence of its characters.  A value that is a str
\* or None is NoStr or SomeStr(s); the argument s3_pointer is a str, a
\* list or tuple of str, or None.
NoStr == [isNone |-> TRUE, s |-> <<>>]
SomeStr(s) == [isNone |-> FALSE, s |-> s]

StrPointer(s) == [t |-> "str", s |-> s, items |-> <<>>]
ListPointer(items) == [t |-> "list", s |-> <<>>, items |-> items]
NonePointer == [t |-> "None", s |-> <<>>, items |-> <<>>]

S3Prefix == <<"s", "3", ":", "/", "/">>

\* s.startswith(prefix)
startswith(s, prefix) ==
    Len(s) >= Len(prefix) /\ SubSeq(s, 1, Len(prefix)) = prefix

\* s.split(sep) for a one-character sep: the parts between the separators,
\* from position i on, cur being the part read so far
RECURSIVE split_from(_, _, _, _)
split_from(s, sep, i, cur) ==
    IF i > Len(s) THEN <<cur>>
    ELSE IF s[i] = sep THEN <<cur>> \o split_from(s, sep, i + 1, <<>>)
    ELSE split_from(s, sep, i + 1, Append(cur, s[i]))

split(s, sep) == split_from(s, sep, 1, <<>>)

\* sep.join(parts)
RECURSIVE join(_, _)
join(sep, parts) ==
    IF Len(parts) = 0 THEN <<>>
    ELSE IF Len(parts) = 1 THEN parts[1]
    ELSE parts[1] \o <<sep>> \o join(sep, Tail(parts))

\* the part after the bucket taken alone, with no join
uri_key_one_part(s3_s) == IF Len(s3_s) >= 4 THEN s3_s[4] ELSE <<>>

\* line 43: '/'.join(s3_s[3:])
uri_key(s3_s) == join("/", SubSeq(s3_s, 4, Len(s3_s)))

\* line 48: f's3://{bucket}/{key}'
format_uri(bucket, key) == S3Prefix \o bucket \o <<"/">> \o key

\* the object __init__ leaves: super().__init__(url=None) sets url, id and
\* _accessible, then type, s3_uri, s3_bucket_name and s3_key are assigned
AwsObject(uri, bucket, key) ==
    [cls |-> "AWSAccessPoint", name |-> AccessPoint(None).name,
     id |-> NoStr, url |-> NoStr, type |-> "aws",
     s3_uri |-> uri, s3_bucket_name |-> bucket, s3_key |-> key,
     _accessible |-> NotProbed]

\* AWSAccessPoint.__init__(s3_pointer), lines 31-57, with the default
\* profile and region: the exception raised, or the object built
AWSAccessPoint_init(s3_pointer) ==
    IF s3_pointer.t = "str"
    THEN IF ~startswith(s3_pointer.s, S3Prefix)
         THEN [exc |-> "ValueError", self |-> AwsObject(NoStr, NoStr, NoStr)]
         ELSE [exc |-> None,
               self |-> AwsObject(SomeStr(s3_pointer.s),
                                  SomeStr(split(s3_pointer.s, "/")[3]),
                                  SomeStr(uri_key(split(s3_pointer.s, "/"))))]
    ELSE IF s3_pointer.t = "list"
    THEN IF Len(s3_pointer.items) # 2
         THEN [exc |-> "ValueError", self |-> AwsObject(NoStr, NoStr, NoStr)]
         ELSE [exc |-> None,
               self |-> AwsObject(SomeStr(format_uri(s3_pointer.items[1],
                                                     s3_pointer.items[2])),
                                  SomeStr(s3_pointer.items[1]),
                                  SomeStr(s3_pointer.items[2]))]
    ELSE [exc |-> None, self |-> AwsObject(NoStr, NoStr, NoStr)]

\* ------------------------------------------- AWSAccessPoint.download

\* Path(key).name: the last component of the path that is not empty
RECURSIVE last_component(_, _)
last_component(parts, i) ==
    IF i = 0 THEN <<>>
    ELSE IF parts[i] # <<>> THEN parts[i]
    ELSE last_component(parts, i - 1)

Path_name(key) == last_component(split(key, "/"), Len(split(key, "/")))

\* the sizes of a file: NoFile when there is no such file
NoFile == 0 - 1

\* the transfer of lines 199-218 on its own, made whatever the directory holds
aws_transfer(self, length, files, env) ==
    IF ~env.bound
    THEN [exc |-> "NameError", value |-> NoStr, files |-> files, transferred |-> FALSE]
    ELSE IF env.fails
    THEN [exc |-> "TransferError", value |-> NoStr, files |-> files,
          transferred |-> FALSE]
    ELSE [exc |-> None, value |-> SomeStr(Path_name(self.s3_key.s)),
          files |-> [files EXCEPT ![Path_name(self.s3_key.s)] = length],
          transferred |-> TRUE]

\* AWSAccessPoint.download(cache), lines 173-219.  length is what
\* head_object answers for the object: its ContentLength, or NoFile when the
\* request raises; files gives the size of each file of the working
\* directory.  s3.Bucket(None) and the test of line 180 raise for an object
\* without bucket and key.  env.bound tells whether the names os, log and
\* threading, which aws.py never binds, resolve; env.fails whether
\* download_file raises.  The branch of line 197 is a bare return.
AwsObject_download(self, cache, length, files, env) ==
    IF self.s3_key.isNone \/ self.s3_key.s = <<>>
    THEN [exc |-> "Exception", value |-> NoStr, files |-> files, transferred |-> FALSE]
    ELSE IF length = NoFile
    THEN [exc |-> "ClientError", value |-> NoStr, files |-> files, transferred |-> FALSE]
    ELSE IF cache /\ ~env.bound
    THEN [exc |-> "NameError", value |-> NoStr, files |-> files, transferred |-> FALSE]
    ELSE IF cache /\ files[Path_name(self.s3_key.s)] # NoFile
              /\ files[Path_name(self.s3_key.s)] = length
    THEN [exc |-> None, value |-> NoStr, files |-> files, transferred |-> FALSE]
    ELSE aws_transfer(self, length, files, env)

\* ----------------------------------------------------------- state machine

Rows == 1..NRows

\* the values a caller can hand to add_access_point: freshly constructed
\* points of the two classes of the package, of a subclass registered under
\* another provider name, and a value that is no access point
NewPoints ==
    {AccessPoint(u) : u \in Urls} \cup {AWSAccessPoint(s) : s \in Uris}
    \cup {SubclassPoint("aws", u) : u \in Urls} \cup {NotAnAccessPoint}

\* the elements the lists handed to add_access_point are made of
ListPoints ==
    {AccessPoint("http://x/a"), SubclassPoint("aws", "http://x/a"), NotAnAccessPoint}

Lists == UNION {[1..n -> ListPoints] : n \in 0..MaxListLen}

SingleArgs == {[isList |-> FALSE, items |-> <<p>>] : p \in NewPoints}

AddArgs == SingleArgs \cup {[isList |-> TRUE, items |-> l] : l \in Lists}

\* the outcome of the transfers a download call attempts.  bound: whether
\* the global names log, os and threading, which the download methods use
\* and prem.py and aws.py never bind, resolve when the call is made; with
\* the modules as they are they do not (bound = FALSE), they do once the
\* caller's process has bound them in the modules.  failing: the rows whose
\* transfer fails once started.
Envs == {[bound |-> FALSE, failing |-> {}]}
        \cup [bound : {TRUE}, failing : SUBSET Rows]

NoCall == [op |-> "init", row |-> 0, arg |-> [isList |-> TRUE, items |-> <<>>],
           source |-> None, fallback |-> FALSE, dryrun |-> FALSE,
           exc |-> None, local_paths |-> <<>>, rows |-> <<>>, value |-> <<>>]

\* the cloud_access documents of a row: no provider, one parameter object
\* under aws or under prem, a list of two under aws or under prem
JsonDocs ==
    {<<>>,
     "aws" :> One([kw |-> "s3_pointer", v |-> "s3://b/k1"]),
     "prem" :> One([kw |-> "s3_pointer", v |-> "s3://b/k1"]),
     "prem" :> One([kw |-> "url", v |-> "http://x/a"]),
     "aws" :> Many(<<[kw |-> "s3_pointer", v |-> "s3://b/k1"],
                     [kw |-> "s3_pointer", v |-> "s3://b/k2"]>>),
     "prem" :> Many(<<[kw |-> "url", v |-> "http://x/a"],
                      [kw |-> "url", v |-> "http://x/b"]>>)}

Options == {<<"main-server">>, <<"aws", "us-east-1">>, <<"prem", "mirror">>}

OptionLists == UNION {[1..n -> Options] : n \in 0..MaxOptions}

NoService == [present |-> FALSE, params |-> {}, options |-> <<>>, matched |-> FALSE]

DlServices ==
    {NoService, [NoService EXCEPT !.present = TRUE]}
    \cup [present : {TRUE}, params : {{"source"}, {"provider"}},
          options : OptionLists, matched : BOOLEAN]

NoJson == [r \in 1..NRows |-> <<>>]

\* the products handed to the constructor and to the extractors: products
\* that differ in their url columns, and products with an access_url
\* column that differ in what there is to discover
ColumnProducts ==
    [fields : SUBSET UrlColumns, json : {NoJson}, dl : {NoService}]

AwsService == [present |-> TRUE, params |-> {"source"},
               options |-> <<<<"aws", "us-east-1">>>>, matched |-> TRUE]

DiscoveryProducts ==
    [fields : {{"access_url"}}, json : {NoJson}, dl : DlServices]
    \cup [fields : {{"access_url", "cloud_access"}},
          json : [1..NRows -> JsonDocs], dl : {NoService, AwsService}]

\* the url_column argument: not given, a column name, a name no product has
UrlColumnArgs == {None, "nocol"} \cup UrlColumns

\* the options whose secondary query fails
FailQs == {{}, {<<"aws", "us-east-1">>}}

ConstructArgs ==
    [product : ColumnProducts, url_column : UrlColumnArgs,
     cenv : [meta : BOOLEAN, failq : {{}}]]
    \cup [product : DiscoveryProducts, url_column : {None},
          cenv : [meta : BOOLEAN, failq : FailQs]]

NoBuild == [op |-> "none", product |-> [fields |-> {}, json |-> NoJson, dl |-> NoService],
            url_column |-> None, provider |-> None,
            cenv |-> [meta |-> FALSE, failq |-> {}],
            exc |-> None, step |-> "none", found |-> None,
            partial |-> <<>>, queries |-> <<>>, out |-> <<>>]

\* the bucket names and keys the caller builds aws access points from
BucketNames == {<<>>, <<"b">>, <<"b", "k">>, <<"b", "/">>}

Keys == UNION {[1..n -> {"k", "/"}] : n \in 0..MaxKeyLen}

\* the values handed to AWSAccessPoint: (bucket, key) pairs, the uris they
\* spell, strings that are no s3 uri, sequences of another length, None
Pointers ==
    {ListPointer(<<b, k>>) : b \in BucketNames, k \in Keys}
    \cup {StrPointer(format_uri(b, k)) : b \in BucketNames, k \in Keys}
    \cup {StrPointer(<<>>), StrPointer(<<"b", "/", "k">>),
          StrPointer(<<"s", "3", ":", "/", "b", "/", "k">>),
          StrPointer(<<"S", "3", ":", "/", "/", "b", "/", "k">>)}
    \cup {ListPointer(<<>>), ListPointer(<<<<"b">>>>),
          ListPointer(<<<<"b">>, <<"k">>, <<"k">>>>)}
    \cup {NonePointer}

\* the values the caller builds the points it downloads from: two objects
\* whose files differ, one whose key is empty, and no pointer
DownloadPointers ==
    {StrPointer(format_uri(<<"b">>, <<"k">>)),
     ListPointer(<<<<"b">>, <<"k", "k">>>>),
     StrPointer(format_uri(<<"b">>, <<>>)),
     NonePointer}

\* the files of the working directory the downloads write
LocalPaths == {Path_name(k) : k \in Keys} \ {<<>>}

\* content lengths and file sizes
Sizes == 1..MaxSize

\* the outcome of one transfer: see AwsObject_download
AwsEnvs == [bound : BOOLEAN, fails : BOOLEAN]

NoAws == [points |-> <<>>, op |-> "none", arg |-> NonePointer, exc |-> None,
          files |-> [f \in LocalPaths |-> NoFile],
          idx |-> 0, cache |-> FALSE, length |-> NoFile, before |-> NoFile,
          value |-> NoStr, transferred |-> FALSE]

\* the worker threads of a transfer and the byte counts they report
Threads == 1..NThreads

Chunks == 1..MaxChunk

\* the transfer of a download before line 199 is reached.  bytes_read is
\* the module global, lock the thread holding progress_lock (0: free), pb
\* the values handed to pb.update in order; for each thread, pc is its
\* position in progress_callback, numbytes the argument of its call, loaded
\* the value of bytes_read it read, calls the callbacks it has made; total
\* is the sum of the byte counts handed to the callbacks.
NoXfer == [state |-> "none", exc |-> None, bytes_read |-> 0, lock |-> 0, pb |-> <<>>,
           pc |-> [t \in Threads |-> "idle"],
           numbytes |-> [t \in Threads |-> 0],
           loaded |-> [t \in Threads |-> 0],
           calls |-> [t \in Threads |-> 0],
           total |-> 0]

\* the identities of the access point instances
Oids == 1..(NRows + MaxAdds * (MaxListLen + 1))

\* is_accessible issues its HEAD request when the instance holds no cached
\* pair (requests.head(self.url), s3_client.head_object(...)); requests
\* rejects url = None before anything is sent
IssuesHead(ap) ==
    ap._accessible.isNone /\ (ap.cls = "AWSAccessPoint" \/ ap.url # None)

\* the instances a download call issued a HEAD request for: am is the
\* handler before the call, rows what the call recorded for each row
HeadsIssued(am, rows) ==
    UNION {{am[r].access_points[rows[r].probed[j].list][rows[r].probed[j].idx].oid :
               j \in {n \in DOMAIN rows[r].probed :
                         IssuesHead(am[r].access_points[rows[r].probed[n].list]
                                                       [rows[r].probed[n].idx])}} :
           r \in DOMAIN rows}

\* DataHandler.__init__, lines 165-170: one AccessManager per row, seeded
\* with the AccessPoint of the row's direct url.  (Lines 159-162 ask every
\* class of class_mapper for access_meta, which no class of prem.py or aws.py
\* defines; the state is the one lines 165-170 build from the urls of the
\* direct-url column with no keywords for prem.)  The discovery steps of
\* lines 178-181 add further points through add_access_point: they are the
\* AddAccessPoint steps.
Init ==
    /\ \E urls \in [Rows -> Urls] :
           access_manager =
               [r \in Rows |-> AccessManager([AccessPoint(urls[r]) EXCEPT !.oid = r])]
    /\ remote = [t \in Targets |-> "200"]
    /\ local = [s \in Uris |-> "absent"]
    /\ call = NoCall
    /\ nadds = 0
    /\ built = NoBuild
    /\ heads = [o \in Oids |-> 0]
    /\ aws = NoAws
    /\ xfer = NoXfer

\* handler[irow].add_access_point(arg)
AddAccessPoint(irow, arg) ==
    /\ nadds < MaxAdds
    /\ irow \in DOMAIN access_manager
    /\ \E r \in {add_access_point(access_manager[irow],
                    [arg EXCEPT !.items =
                        [i \in DOMAIN arg.items |->
                            [arg.items[i] EXCEPT
                                !.oid = NRows + nadds * (MaxListLen + 1) + i]]])} :
          /\ access_manager' = [access_manager EXCEPT ![irow] = r.self]
          /\ call' = [NoCall EXCEPT !.op = "add", !.row = irow, !.arg = arg,
                                    !.exc = r.exc]
    /\ nadds' = nadds + 1
    /\ UNCHANGED <<remote, local, built, heads, aws, xfer>>

\* handler.download(source, fallback=fallback, dryrun=dryrun); a dry run
\* attempts no transfer, so its outcome is drawn once
Download(source, fallback, dryrun, env) ==
    /\ \A o \in Oids : heads[o] < MaxHeads
    /\ dryrun => env = [bound |-> FALSE, failing |-> {}]
    /\ \E r \in {DataHandler_download(access_manager,
                    [source |-> source, fallback |-> fallback, dryrun |-> dryrun,
                     rem |-> remote, env |-> env, irow |-> 0], local)} :
          /\ access_manager' = r.access_manager
          /\ local' = r.local
          /\ call' = [NoCall EXCEPT !.op = "download", !.source = source,
                                    !.fallback = fallback, !.dryrun = dryrun,
                                    !.exc = r.exc, !.local_paths = r.local_paths,
                                    !.rows = r.rows]
          /\ heads' = [o \in Oids |->
                           IF o \in HeadsIssued(access_manager, r.rows)
                           THEN heads[o] + 1 ELSE heads[o]]
    /\ UNCHANGED <<remote, nadds, built, aws, xfer>>

\* handler[irow].access_points[k][i].is_accessible(), called by the user
Probe(irow, k, i) ==
    /\ irow \in DOMAIN access_manager
    /\ k \in DOMAIN access_manager[irow].access_points
    /\ i \in DOMAIN access_manager[irow].access_points[k]
    /\ heads[access_manager[irow].access_points[k][i].oid] < MaxHeads
    /\ \E r \in {is_accessible(access_manager[irow].access_points[k][i], remote)} :
          /\ access_manager' =
                 [access_manager EXCEPT ![irow] =
                     SyncDefault([@ EXCEPT !.access_points[k][i] = r.self])]
          /\ call' = [NoCall EXCEPT !.op = "probe", !.row = irow, !.source = k,
                                    !.exc = r.exc, !.value = r.value,
                                    !.rows = <<[sel |-> [list |-> k, idx |-> i],
                                                probed |-> <<[list |-> k, idx |-> i]>>,
                                                attempts |-> <<>>, exc |-> r.exc]>>]
          /\ heads' = [heads EXCEPT ![r.self.oid] =
                           IF IssuesHead(access_manager[irow].access_points[k][i])
                           THEN @ + 1 ELSE @]
    /\ UNCHANGED <<remote, local, nadds, built, aws, xfer>>

\* the targets the handler's access points talk to
Referenced(am) ==
    UNION {UNION {{TargetOf(am[r].access_points[k][i]) :
                      i \in DOMAIN am[r].access_points[k]} :
                  k \in DOMAIN am[r].access_points} :
           r \in DOMAIN am}

\* the world changes: a target appears, disappears or becomes unreachable
\* (only the targets some access point of the handler refers to are followed)
EnvChange(t, status) ==
    /\ remote[t] # status
    /\ t \in Referenced(access_manager)
    /\ remote' = [remote EXCEPT ![t] = status]
    /\ call' = [NoCall EXCEPT !.op = "env"]
    /\ UNCHANGED <<access_manager, local, nadds, built, heads, aws, xfer>>

Next ==
    \/ \E irow \in Rows, arg \in SingleArgs :
           nadds < MaxHandlerAdds /\ AddAccessPoint(irow, arg)
    \/ \E source \in Sources, fallback \in BOOLEAN, dryrun \in BOOLEAN, env \in Envs :
           Download(source, fallback, dryrun, env)
    \/ \E t \in Targets, status \in Statuses : EnvChange(t, status)

Spec == Init /\ [][Next]_vars

\* one registry alone: any sequence of add_access_point calls, with single
\* points and with lists, on the manager of the first row of a freshly
\* built handler (the managers of a handler share nothing)
NextRegistry ==
    \E arg \in AddArgs : AddAccessPoint(1, arg)

SpecRegistry == Init /\ [][NextRegistry]_vars

\* the probes of the points of a handler: the user probes points, the
\* handler downloads (dry runs, which probe and transfer nothing), one point
\* is added, and the world changes in between
NextProbe ==
    \/ \E irow \in Rows, k \in Sources, i \in 1..(MaxHandlerAdds + 1) : Probe(irow, k, i)
    \/ \E source \in Sources, fallback \in BOOLEAN :
           Download(source, fallback, TRUE, [bound |-> FALSE, failing |-> {}])
    \/ \E t \in Targets, status \in Statuses : EnvChange(t, status)
    \/ \E arg \in SingleArgs : nadds < MaxHandlerAdds /\ AddAccessPoint(1, arg)

SpecProbe == Init /\ [][NextProbe]_vars

\* before any handler is built
InitDiscovery ==
    /\ access_manager = <<>>
    /\ remote = [t \in Targets |-> "200"]
    /\ local = [s \in Uris |-> "absent"]
    /\ call = NoCall
    /\ nadds = 0
    /\ built = NoBuild
    /\ heads = [o \in Oids |-> 0]
    /\ aws = NoAws
    /\ xfer = NoXfer

\* handler = DataHandler(product, url_column=url_column)
Construct(a) ==
    /\ built.op = "none"
    /\ \E r \in {DataHandler_init(a.product, a.url_column, a.cenv)} :
          /\ access_manager' = IF r.exc = None THEN r.access_manager ELSE <<>>
          /\ built' = [NoBuild EXCEPT !.op = "construct", !.product = a.product,
                                      !.url_column = a.url_column, !.cenv = a.cenv,
                                      !.exc = r.exc, !.step = r.step,
                                      !.found = r.url_column,
                                      !.partial = r.access_manager,
                                      !.queries = r.queries]
    /\ UNCHANGED <<remote, local, call, nadds, heads, aws, xfer>>

\* _process_json_column(products, provider)
ExtractJson(product, provider) ==
    /\ built.op = "none"
    /\ \E r \in {fornax_process_json_column(product, provider)} :
          built' = [NoBuild EXCEPT !.op = "json", !.product = product,
                                   !.provider = provider, !.exc = r.exc,
                                   !.out = r.out]
    /\ UNCHANGED <<access_manager, remote, local, call, nadds, heads, aws, xfer>>

\* _process_cloud_datalinks(products, provider)
ExtractDatalinks(product, provider, failq) ==
    /\ built.op = "none"
    /\ \E r \in {fornax_process_cloud_datalinks(product, provider, failq)} :
          built' = [NoBuild EXCEPT !.op = "datalinks", !.product = product,
                                   !.provider = provider, !.cenv.failq = failq,
                                   !.exc = r.exc, !.out = r.out,
                                   !.queries = r.queries]
    /\ UNCHANGED <<access_manager, remote, local, call, nadds, heads, aws, xfer>>

NextDiscovery ==
    \/ \E a \in ConstructArgs : Construct(a)
    \/ \E product \in DiscoveryProducts, provider \in {"prem", "aws", "gcp"} :
           product.dl = NoService /\ ExtractJson(product, provider)
    \/ \E product \in DiscoveryProducts, provider \in {"prem", "aws", "gcp"},
          failq \in FailQs :
           product.fields = {"access_url"} /\ ExtractDatalinks(product, provider, failq)

SpecDiscovery == InitDiscovery /\ [][NextDiscovery]_vars

\* ap = AWSAccessPoint(s3_pointer): the caller keeps the objects it built
AwsNew(s3_pointer) ==
    /\ Len(aws.points) < MaxPoints
    /\ \E r \in {AWSAccessPoint_init(s3_pointer)} :
          aws' = [NoAws EXCEPT !.points = IF r.exc = None
                                          THEN Append(aws.points,
                                                      [arg |-> s3_pointer, self |-> r.self])
                                          ELSE aws.points,
                               !.files = aws.files,
                               !.op = "new", !.arg = s3_pointer, !.exc = r.exc]
    /\ UNCHANGED <<access_manager, remote, local, call, nadds, built, heads, xfer>>

NextAws ==
    \E s3_pointer \in Pointers : AwsNew(s3_pointer)

SpecAws == InitDiscovery /\ [][NextAws]_vars

\* aws.points[i].download(cache=cache), the object's content length being
\* length
AwsDownload(i, cache, length, env) ==
    /\ i \in DOMAIN aws.points
    /\ \E r \in {AwsObject_download(aws.points[i].self, cache, length, aws.files, env)} :
          aws' = [NoAws EXCEPT !.points = aws.points, !.files = r.files,
                               !.op = "download", !.arg = aws.points[i].arg,
                               !.exc = r.exc, !.idx = i, !.cache = cache,
                               !.length = length,
                               !.before = IF aws.points[i].self.s3_key.isNone
                                          \/ Path_name(aws.points[i].self.s3_key.s) = <<>>
                                          THEN NoFile
                                          ELSE aws.files[Path_name(aws.points[i].self.s3_key.s)],
                               !.value = r.value, !.transferred = r.transferred]
    /\ UNCHANGED <<access_manager, remote, local, call, nadds, built, heads, xfer>>

\* the working directory changes under the caller: a file is written,
\* truncated or removed
AwsFileChange(f, size) ==
    /\ aws.files[f] # size
    /\ aws' = [NoAws EXCEPT !.points = aws.points,
                            !.files = [aws.files EXCEPT ![f] = size],
                            !.op = "file"]
    /\ UNCHANGED <<access_manager, remote, local, call, nadds, built, heads, xfer>>

NextAwsDownload ==
    \/ \E s3_pointer \in DownloadPointers : AwsNew(s3_pointer)
    \/ \E i \in 1..MaxPoints, cache \in BOOLEAN, length \in Sizes \cup {NoFile},
          env \in AwsEnvs : AwsDownload(i, cache, length, env)
    \/ \E f \in LocalPaths, size \in Sizes \cup {NoFile} : AwsFileChange(f, size)

SpecAwsDownload == InitDiscovery /\ [][NextAwsDownload]_vars

\* a lock whose state is not looked at
lock_ignored(lock) == TRUE

\* threading.Lock: acquire blocks until the lock is free
lock_is_free(lock) == lock = 0

\* lines 199-206: the progress display is opened, bytes_read is set to 0
\* and progress_lock is created.  threading is a name aws.py never binds:
\* line 206 raises NameError unless the name resolves (bound).
TransferStart(bound) ==
    /\ xfer.state = "none"
    /\ xfer' = IF bound THEN [NoXfer EXCEPT !.state = "running"]
               ELSE [NoXfer EXCEPT !.state = "raised", !.exc = "NameError"]
    /\ UNCHANGED <<access_manager, remote, local, call, nadds, built, heads, aws>>

\* a worker thread of download_file calls progress_callback(numbytes)
CallbackEnter(t, numbytes) ==
    /\ xfer.state = "running"
    /\ xfer.pc[t] = "idle"
    /\ xfer.calls[t] < MaxCallbacks
    /\ xfer' = [xfer EXCEPT !.pc[t] = "with", !.numbytes[t] = numbytes,
                            !.calls[t] = @ + 1, !.total = @ + numbytes]
    /\ UNCHANGED <<access_manager, remote, local, call, nadds, built, heads, aws>>

\* line 214: with progress_lock
LockAcquire(t) ==
    /\ xfer.pc[t] = "with"
    /\ lock_is_free(xfer.lock)
    /\ xfer' = [xfer EXCEPT !.lock = t, !.pc[t] = "load"]
    /\ UNCHANGED <<access_manager, remote, local, call, nadds, built, heads, aws>>

\* line 215, bytes_read += numbytes: the global is read ...
LoadBytesRead(t) ==
    /\ xfer.pc[t] = "load"
    /\ xfer' = [xfer EXCEPT !.loaded[t] = xfer.bytes_read, !.pc[t] = "store"]
    /\ UNCHANGED <<access_manager, remote, local, call, nadds, built, heads, aws>>

\* ... and the sum is stored
StoreBytesRead(t) ==
    /\ xfer.pc[t] = "store"
    /\ xfer' = [xfer EXCEPT !.bytes_read = xfer.loaded[t] + xfer.numbytes[t],
                            !.pc[t] = "update"]
    /\ UNCHANGED <<access_manager, remote, local, call, nadds, built, heads, aws>>

\* line 216: pb.update(bytes_read)
UpdateDisplay(t) ==
    /\ xfer.pc[t] = "update"
    /\ xfer' = [xfer EXCEPT !.pb = Append(@, xfer.bytes_read), !.pc[t] = "release"]
    /\ UNCHANGED <<access_manager, remote, local, call, nadds, built, heads, aws>>

\* the end of the with block: the lock is released and the callback returns
LockRelease(t) ==
    /\ xfer.pc[t] = "release"
    /\ xfer' = [xfer EXCEPT !.lock = 0, !.pc[t] = "idle"]
    /\ UNCHANGED <<access_manager, remote, local, call, nadds, built, heads, aws>>

\* download_file returns once its worker threads are done
TransferEnd ==
    /\ xfer.state = "running"
    /\ \A t \in Threads : xfer.pc[t] = "idle"
    /\ xfer' = [xfer EXCEPT !.state = "done"]
    /\ UNCHANGED <<access_manager, remote, local, call, nadds, built, heads, aws>>

NextTransfer ==
    \/ \E bound \in BOOLEAN : TransferStart(bound)
    \/ \E t \in Threads, numbytes \in Chunks : CallbackEnter(t, numbytes)
    \/ \E t \in Threads : LockAcquire(t)
    \/ \E t \in Threads : LoadBytesRead(t)
    \/ \E t \in Threads : StoreBytesRead(t)
    \/ \E t \in Threads : UpdateDisplay(t)
    \/ \E t \in Threads : LockRelease(t)
    \/ TransferEnd

SpecTransfer == InitDiscovery /\ [][NextTransfer]_vars

\* ------------------------------------------------------------------ claims

\* the provider's list of a row, empty when the provider has no key
ListOf(r, k) ==
    IF k \in DOMAIN access_manager[r].access_points
    THEN access_manager[r].access_points[k] ELSE <<>>

\* what a probe of the point answers in the current world.  In the state a
\* download call leaves, this is what the probe answered (or would have
\* answered) during the call: the call does not change the world, and a
\* point it probed holds the answer in its cache.
ProbesUnreachable(ap) ==
    LET r == is_accessible(ap, remote) IN r.exc = None /\ r.value[1] = FALSE

ProbesReachable(ap) ==
    LET r == is_accessible(ap, remote) IN r.exc = None /\ r.value[1] = TRUE

AllUnreachable(aps) == \A i \in DOMAIN aps : ProbesUnreachable(aps[i])

Downloaded == call.op = "download"

\* the result download() of a prem point returns, or its identifier
PremResult(ap) == IF call.dryrun THEN PyStr(ap.id) ELSE PyPath(ap.url)

\* the rows C1 and C2 speak of: some aws point is registered, every aws
\* point probes unreachable
AwsAllUnreachable(r) == ListOf(r, "aws") # <<>> /\ AllUnreachable(ListOf(r, "aws"))

\* C1: after download("aws", fallback=True), a row whose aws points all
\* probe unreachable and whose prem point probes reachable was served by the
\* prem point: the prem point is the selected one, and the row's entry is
\* what the prem point's download() returned (its identifier under dryrun).
C1_FallbackToPrem ==
    (Downloaded /\ call.source = "aws" /\ call.fallback) =>
        \A r \in Rows :
            (AwsAllUnreachable(r) /\ ProbesReachable(ListOf(r, "prem")[1])) =>
                /\ r <= Len(call.rows)
                /\ call.rows[r].sel = [list |-> "prem", idx |-> 1]
                /\ call.rows[r].exc = None =>
                       call.local_paths[r] = PremResult(ListOf(r, "prem")[1])

\* C2: after download("aws", fallback=False), a row whose aws points all
\* probe unreachable has the entry None and no download() was invoked for it.
C2_NoFallbackNull ==
    (Downloaded /\ call.source = "aws" /\ ~call.fallback) =>
        \A r \in Rows :
            AwsAllUnreachable(r) =>
                /\ call.exc = None
                /\ r <= Len(call.local_paths)
                /\ call.local_paths[r] = PyNone
                /\ call.rows[r].attempts = <<>>

\* C3: the point download selects for a row is the first point of the
\* scanned list whose probe returned reachable = true: its own probe
\* returned true and the probe of every point before it returned false.
C3_SelectsFirstReachable ==
    Downloaded =>
        \A r \in DOMAIN call.rows :
            call.rows[r].sel # NoSel =>
                LET aps == ListOf(r, call.rows[r].sel.list)
                    i == call.rows[r].sel.idx
                IN /\ ~aps[i]._accessible.isNone
                   /\ aps[i]._accessible.val[1] = TRUE
                   /\ \A j \in 1..(i - 1) : aps[j]._accessible.val[1] = FALSE

\* C4: download of a supported source returns one entry per row, in row
\* order, whatever the registries hold (stated for dry runs, where no
\* transfer can fail).
C4_OneEntryPerRow ==
    (Downloaded /\ call.source \in Sources /\ call.dryrun) =>
        /\ call.exc = None
        /\ Len(call.local_paths) = NRows
        /\ \A r \in Rows :
               call.rows[r].sel = NoSel => call.local_paths[r] = PyNone

\* the identifier the data model gives a point: the url of a prem point, the
\* s3://bucket/key uri of an aws point
Identifier(ap) == IF ap.cls = "AWSAccessPoint" THEN ap.s3_uri ELSE ap.url

TransferRaised(r) ==
    /\ r \in DOMAIN call.rows
    /\ call.rows[r].attempts # <<>>
    /\ call.rows[r].exc # None

\* C6: when the transfer of one row raises, the call still returns: that
\* row's entry is None and every row, the later ones included, has an entry.
C6_RowFailureIsSoft ==
    Downloaded =>
        \A r \in Rows :
            TransferRaised(r) =>
                /\ call.exc = None
                /\ Len(call.local_paths) = NRows
                /\ call.local_paths[r] = PyNone

\* the candidate download has to try after the one at sel: the next point of
\* the same list, then (fallback, source not prem) the first prem point
NextCandidate(r, sel) ==
    IF sel.idx < Len(ListOf(r, sel.list))
    THEN [list |-> sel.list, idx |-> sel.idx + 1]
    ELSE IF sel.list # "prem" /\ call.fallback /\ ListOf(r, "prem") # <<>>
    THEN [list |-> "prem", idx |-> 1]
    ELSE NoSel

\* C7: when download() of the selected point fails and the row has a next
\* candidate, download() is attempted on that candidate as well.
C7_TriesNextCandidate ==
    Downloaded =>
        \A r \in Rows :
            (TransferRaised(r) /\ NextCandidate(r, call.rows[r].attempts[1]) # NoSel) =>
                /\ Len(call.rows[r].attempts) >= 2
                /\ call.rows[r].attempts[2] = NextCandidate(r, call.rows[r].attempts[1])

\* the identity given to item i of the argument of the last add_access_point
FreshOid(i) == NRows + (nadds - 1) * (MaxListLen + 1) + i

\* item i of the last add_access_point was reached by the walk and is an
\* access point
Processed(i) ==
    /\ call.op = "add"
    /\ i \in DOMAIN call.arg.items
    /\ \A j \in 1..i : isinstance_AccessPoint(call.arg.items[j])

\* item i of the last add_access_point is now in its provider's list
Appended(i) ==
    \E n \in DOMAIN ListOf(call.row, call.arg.items[i].name) :
        ListOf(call.row, call.arg.items[i].name)[n].oid = FreshOid(i)

\* a point with the identifier of item i was registered under the item's
\* own provider before the item was handed in
RegisteredBefore(i) ==
    \E n \in DOMAIN ListOf(call.row, call.arg.items[i].name) :
        /\ ListOf(call.row, call.arg.items[i].name)[n].id = call.arg.items[i].id
        /\ ListOf(call.row, call.arg.items[i].name)[n].oid < FreshOid(i)

\* C8: dedup invariant: no provider's list holds two points with the same
\* identifier.
C8_DedupInvariant ==
    \A r \in Rows : \A k \in DOMAIN access_manager[r].access_points :
        \A i, j \in DOMAIN ListOf(r, k) :
            i # j => ListOf(r, k)[i].id # ListOf(r, k)[j].id

\* C8's case: a point was handed in whose identifier its provider's list
\* already held, and it was not appended
C8_DuplicateDropped ==
    \E i \in 1..MaxListLen : Processed(i) /\ RegisteredBefore(i) /\ ~Appended(i)

\* C9: add_access_point appends a point if and only if no point with its
\* identifier is registered for its own provider; points of other providers
\* do not count.
C9_AppendIffNewForProvider ==
    \A i \in 1..MaxListLen : Processed(i) => (Appended(i) <=> ~RegisteredBefore(i))

\* C10: every provider key of a registry maps to a non-empty list, and an
\* add of access points raises no error.
C10_NoEmptyProvider ==
    /\ \A r \in Rows : \A k \in DOMAIN access_manager[r].access_points :
           ListOf(r, k) # <<>>
    /\ \A i \in 1..MaxListLen :
           (Processed(i) /\ i = Len(call.arg.items)) => call.exc = None

\* C11: default_access_point has an entry for every provider that has
\* registered points, and the entry is the first point registered for it.
C11_DefaultForEveryProvider ==
    \A r \in Rows : \A k \in DOMAIN access_manager[r].access_points :
        ListOf(r, k) # <<>> =>
            /\ k \in DOMAIN access_manager[r].default_access_point
            /\ access_manager[r].default_access_point[k].oid = ListOf(r, k)[1].oid

Constructed == built.op = "construct"

\* the product of the last construction offers, for row r, one aws entry in
\* its cloud_access document and an aws datalink option whose query answers
\* with a link for the row, the two with distinct identifiers
HasJsonAndDatalinkAws(r) ==
    /\ "cloud_access" \in built.product.fields
    /\ "aws" \in DOMAIN built.product.json[r]
    /\ ~built.product.json[r]["aws"].isList
    /\ built.product.json[r]["aws"].items[1].v # DatalinkUrl
    /\ built.product.dl.present
    /\ "source" \in built.product.dl.params
    /\ built.product.dl.matched
    /\ \E k \in DOMAIN built.product.dl.options :
           built.product.dl.options[k][1] = "aws"
    /\ built.cenv.failq = {}

\* C12: after the construction, the aws list of such a row holds the point
\* of the cloud_access document and then the point of the datalink.
C12_DiscoveryOrder ==
    Constructed =>
        \A r \in 1..NRows :
            HasJsonAndDatalinkAws(r) =>
                /\ built.exc = None
                /\ "aws" \in DOMAIN access_manager[r].access_points
                /\ [i \in DOMAIN access_manager[r].access_points["aws"] |->
                        TargetOf(access_manager[r].access_points["aws"][i])]
                   = <<built.product.json[r]["aws"].items[1].v, DatalinkUrl>>

\* C13: after a construction, the prem list of every row holds exactly one
\* point, the baseline built from the url of the direct-url column.
C13_PremBaselineOnly ==
    (Constructed /\ built.exc = None) =>
        \A r \in 1..NRows :
            /\ Len(access_manager[r].access_points["prem"]) = 1
            /\ access_manager[r].access_points["prem"][1].cls = "AccessPoint"
            /\ access_manager[r].access_points["prem"][1].url = ColumnUrl(built.found)

\* the options of the service that are not the legacy alias
OtherOptions(dl) == {k \in DOMAIN dl.options : dl.options[k] # <<"main-server">>}

\* the service of the last call reached the loop over its options
OptionsLooped ==
    \/ /\ built.op = "construct"
       /\ built.step \in {"datalinks", "ready"}
       /\ built.product.dl.present /\ "source" \in built.product.dl.params
    \/ /\ built.op = "datalinks"
       /\ built.provider \in DOMAIN PROVIDERS
       /\ built.product.dl.present /\ "provider" \in built.product.dl.params

\* the points the datalink step of the constructor added
DatalinkPoints(am) ==
    UNION {UNION {{i \in DOMAIN am[r].access_points[k] :
                      am[r].access_points[k][i].oid > NRows * (Len(class_mapper_keys) + 1)} :
                  k \in DOMAIN am[r].access_points} :
           r \in DOMAIN am}

\* C14: an option equal to "main-server" has no secondary query executed
\* for it and adds nothing: every executed query is the query of another
\* option, and a service that offers nothing but "main-server" leaves the
\* registries (the extractor: its result lists) as they were, whatever the
\* requested provider.
C14_MainServerSkipped ==
    OptionsLooped =>
        /\ \A q \in DOMAIN built.queries :
               /\ built.queries[q] \notin {<<"main-server">>, <<"prem">>}
               /\ \E k \in OtherOptions(built.product.dl) :
                      built.product.dl.options[k] = built.queries[q]
        /\ Len(built.queries) <= Cardinality(OtherOptions(built.product.dl))
        /\ OtherOptions(built.product.dl) = {} =>
               /\ built.exc = None
               /\ built.queries = <<>>
               /\ DatalinkPoints(built.partial) = {}
               /\ \A r \in DOMAIN built.out : built.out[r] = <<>>

\* C14's case: prem was requested from a service that offers "main-server"
\* next to a prem option, and only the latter was queried
C14_MainServerAmongOptions ==
    /\ OptionsLooped
    /\ built.provider = "prem"
    /\ built.product.dl.options = <<<<"main-server">>, <<"prem", "mirror">>>>
    /\ built.queries = <<<<"prem", "mirror">>>>

\* the candidates of the direct-url column in their fixed order: the name
\* given, the column tagged VOX:Image_AccessReference, the column named
\* access_url, the column tagged meta.ref.url
UrlCandidates == <<built.url_column, "sia1col", "access_url", "refcol">>

\* candidate n exists: the name was given (whether the product has it is
\* validated, not searched), or the product has the column
CandidateExists(n) ==
    IF n = 1 THEN built.url_column # None
    ELSE UrlCandidates[n] \in built.product.fields

\* C15: the column the construction uses is the first candidate that
\* exists; a later candidate is used only when every earlier one is absent;
\* and the baseline points are built from that column.
C15_FirstCandidateWins ==
    (Constructed /\ built.step # "column") =>
        /\ \E n \in DOMAIN UrlCandidates :
               /\ CandidateExists(n)
               /\ \A m \in 1..(n - 1) : ~CandidateExists(m)
               /\ built.found = UrlCandidates[n]
        /\ \A r \in DOMAIN built.partial :
               built.partial[r].access_points["prem"][1].url = ColumnUrl(built.found)

\* C15's case: no name given, no column tagged VOX:Image_AccessReference,
\* and both an access_url column and a column tagged meta.ref.url: the
\* former is used
C15_LaterCandidateUsed ==
    /\ Constructed
    /\ built.url_column = None
    /\ built.product.fields = {"access_url", "refcol"}
    /\ built.found = "access_url"
    /\ built.step # "column"

\* the direct-url column of the last construction cannot be resolved: the
\* name given is no field of the product, or none was given and the product
\* has none of the three columns
Unresolvable ==
    IF built.url_column # None THEN built.url_column \notin built.product.fields
    ELSE built.product.fields \cap UrlColumns = {}

\* C16: the construction raises the ValueError of the column resolution
\* exactly when the column cannot be resolved, and then no registry has
\* been created, no query executed and no point probed.
C16_UnresolvedColumnRaises ==
    Constructed =>
        /\ (built.step = "column" /\ built.exc = "ValueError") <=> Unresolvable
        /\ Unresolvable =>
               /\ access_manager = <<>>
               /\ built.partial = <<>>
               /\ built.queries = <<>>
               /\ \A o \in Oids : heads[o] = 0

\* C16's case: the name given is no field of a product that has a column
\* the search would have found
C16_ExplicitNameMissing ==
    /\ Constructed
    /\ built.url_column = "nocol"
    /\ "access_url" \in built.product.fields
    /\ built.exc = "ValueError"

\* C17: over the probes and downloads made on a handler, no access point
\* instance issues its existence check (HEAD request) more than once, and a
\* probe that returns returns the pair the instance holds in its cache.
C17_HeadAtMostOnce ==
    /\ \A o \in Oids : heads[o] <= 1
    /\ (call.op = "probe" /\ call.exc = None) =>
           /\ ~ListOf(call.row, call.source)[call.rows[1].sel.idx]._accessible.isNone
           /\ call.value = ListOf(call.row, call.source)[call.rows[1].sel.idx]._accessible.val

\* C18: a probe does not raise, whatever the remote end answers or fails to
\* answer: it returns a pair, and the instance holds that pair afterwards.
C18_ProbeNeverRaises ==
    call.op = "probe" =>
        /\ call.exc = None
        /\ Len(call.value) = 2
        /\ ListOf(call.row, call.source)[call.rows[1].sel.idx]._accessible
               = Cached(call.value)

\* the options of the service, after the alias replacement, as a set
OptionSet(dl) == {replace_main_server(dl.options[k]) : k \in DOMAIN dl.options}

\* the failures of the datalink step that are to be soft: no ad-hoc service,
\* no parameter enumerating the options, a secondary query that fails
DatalinkSoftCase(par) ==
    \/ ~built.product.dl.present
    \/ par \notin built.product.dl.params
    \/ built.cenv.failq \cap OptionSet(built.product.dl) # {}

\* C19: when the datalink step meets one of these failures, the
\* construction (the extractor) still completes, every row keeps its
\* baseline, and every option that is to be queried has been queried.
C19_DatalinkFailuresSoft ==
    /\ (Constructed /\ built.step \in {"datalinks", "ready"} /\ DatalinkSoftCase("source")) =>
           /\ built.exc = None
           /\ Len(access_manager) = NRows
           /\ \A r \in DOMAIN access_manager :
                  access_manager[r].access_points["prem"][1].oid = r
           /\ (built.product.dl.present /\ "source" \in built.product.dl.params) =>
                  \A o \in OptionSet(built.product.dl) \ {<<"prem">>} :
                      \E q \in DOMAIN built.queries : built.queries[q] = o
    /\ (built.op = "datalinks" /\ built.provider \in DOMAIN PROVIDERS
           /\ DatalinkSoftCase("provider")) =>
           /\ built.exc = None
           /\ Len(built.out) = NRows
           /\ (built.product.dl.present /\ "provider" \in built.product.dl.params) =>
                  \A k \in DOMAIN built.product.dl.options :
                      built.product.dl.options[k][1] = built.provider =>
                          \E q \in DOMAIN built.queries :
                              built.queries[q] = built.product.dl.options[k]

\* the points of a registry list that the cloud_access step created
IsJsonPoint(ap) ==
    ap.oid > NRows /\ ap.oid <= NRows * (Len(class_mapper_keys) + 1)

JsonPoints(aps) == SelectSeq(aps, IsJsonPoint)

\* the entries of a provider's value of the document, one per element, in
\* order, are the targets of the sequence of points pts
SameTargets(pts, items) ==
    /\ Len(pts) = Len(items)
    /\ \A i \in DOMAIN items : TargetOf(pts[i]) = items[i].v

\* C20: a provider's value of the cloud_access document, one parameter
\* object or a list of n, yields one record (one access point) per element
\* for the row, in the order of the list: in what _process_json_column
\* returns and in the registries DataHandler.process_json_column fills.
C20_SingleOrListAccepted ==
    /\ (built.op = "json" /\ built.provider \in DOMAIN PROVIDERS
           /\ "cloud_access" \in built.product.fields) =>
           /\ built.exc = None
           /\ \A r \in Rows :
                  built.provider \in DOMAIN built.product.json[r] =>
                      built.out[r] = built.product.json[r][built.provider].items
    /\ (Constructed /\ built.step \in {"json", "datalinks", "ready"}
           /\ "cloud_access" \in built.product.fields) =>
           /\ built.step # "json"
           /\ \A r \in Rows : \A p \in DOMAIN built.product.json[r] :
                  /\ p \in DOMAIN built.partial[r].access_points
                  /\ SameTargets(JsonPoints(built.partial[r].access_points[p]),
                                 built.product.json[r][p].items)

\* a bucket name that holds no '/'
PlainBucket(b) == \A i \in DOMAIN b : b[i] # "/"

\* C21: an aws access point built from the uri s3://b/k and one built from
\* the pair (b, k), b holding no '/', have the same identifier, s3 uri,
\* bucket name and key.
C21_UriPairEquivalence ==
    \A i, j \in DOMAIN aws.points :
        (/\ aws.points[i].arg.t = "list"
         /\ PlainBucket(aws.points[i].arg.items[1])
         /\ aws.points[j].arg = StrPointer(format_uri(aws.points[i].arg.items[1],
                                                      aws.points[i].arg.items[2]))) =>
            /\ aws.points[i].self.id = aws.points[j].self.id
            /\ aws.points[i].self.s3_uri = aws.points[j].self.s3_uri
            /\ aws.points[i].self.s3_bucket_name = aws.points[j].self.s3_bucket_name
            /\ aws.points[i].self.s3_key = aws.points[j].self.s3_key

\* the two points of C21 were built, for a key that holds a '/'
C21_BothBuilt ==
    \E i, j \in DOMAIN aws.points :
        /\ aws.points[i].arg = ListPointer(<<<<"b">>, <<"k", "/">>>>)
        /\ aws.points[j].arg = StrPointer(format_uri(<<"b">>, <<"k", "/">>))

\* the arguments that name no s3 object: a string that is no s3:// uri, a
\* sequence that is no pair, no pointer at all
Malformed(s3_pointer) ==
    \/ s3_pointer.t = "str" /\ ~startswith(s3_pointer.s, S3Prefix)
    \/ s3_pointer.t = "list" /\ Len(s3_pointer.items) # 2
    \/ s3_pointer.t = "None"

\* C22: AWSAccessPoint called with a malformed argument raises ValueError
\* and builds no access point.
C22_MalformedRaises ==
    (aws.op = "new" /\ Malformed(aws.arg)) =>
        /\ aws.exc = "ValueError"
        /\ \A i \in DOMAIN aws.points : aws.points[i].arg # aws.arg

\* the last call is a download(cache=True) of an object that exists, with
\* nothing failing underneath
CachedDownload ==
    /\ aws.op = "download" /\ aws.cache
    /\ aws.length # NoFile
    /\ ~aws.points[aws.idx].self.s3_key.isNone
    /\ aws.points[aws.idx].self.s3_key.s # <<>>

\* what a download that transfers the object returns
TransferResult(self) == SomeStr(Path_name(self.s3_key.s))

\* C23: download(cache=True) with the local file present and of the size
\* of the content length transfers nothing and returns the local path a
\* transferring download returns; with the file absent or of another size
\* the object is transferred (unless the transfer itself fails).
C23_CachedDownloadIdempotent ==
    CachedDownload =>
        IF aws.before = aws.length
        THEN /\ aws.exc = None
             /\ ~aws.transferred
             /\ aws.value = TransferResult(aws.points[aws.idx].self)
        ELSE aws.exc \in {None, "TransferError"}
             /\ (aws.exc = None =>
                    /\ aws.transferred
                    /\ aws.value = TransferResult(aws.points[aws.idx].self)
                    /\ aws.files[Path_name(aws.points[aws.idx].self.s3_key.s)] = aws.length)

\* a registry with the reachability cache of every point cleared
ClearCaches(mgr) ==
    [access_points |->
         [k \in DOMAIN mgr.access_points |->
             [i \in DOMAIN mgr.access_points[k] |->
                 [mgr.access_points[k][i] EXCEPT !._accessible = NotProbed]]],
     default_access_point |->
         [k \in DOMAIN mgr.default_access_point |->
             [mgr.default_access_point[k] EXCEPT !._accessible = NotProbed]]]

\* C24: a call of DataHandler.download changes no registry but for the
\* reachability caches of its points: the provider keys, the lists and the
\* preferred points of every row are after the call what they were before.
C24_DownloadFrame ==
    [][call'.op = "download" =>
          /\ DOMAIN access_manager' = DOMAIN access_manager
          /\ \A r \in DOMAIN access_manager :
                 ClearCaches(access_manager'[r]) = ClearCaches(access_manager[r])]_vars

\* a download has run on a handler with a registered aws point, and wrote a
\* reachability cache
C24_DownloadProbed ==
    /\ call.op = "download"
    /\ \E r \in DOMAIN access_manager :
           /\ "aws" \in DOMAIN access_manager[r].access_points
           /\ \E k \in DOMAIN access_manager[r].access_points :
                  \E i \in DOMAIN access_manager[r].access_points[k] :
                      ~access_manager[r].access_points[k][i]._accessible.isNone

\* the probes the last download made on row r: those of the list of the
\* requested source, then those of the prem list made as the fallback
SourceProbes(r) ==
    SelectSeq(call.rows[r].probed, LAMBDA p : p.list = call.source)

FallbackProbes(r) ==
    SelectSeq(call.rows[r].probed, LAMBDA p : p.list # call.source)

\* the probes ps walk the list k of row r from its first point on, one
\* point after the other, and every point before the last one probed
\* answered unreachable
InOrderUntilReachable(r, k, ps) ==
    /\ Len(ps) <= Len(ListOf(r, k))
    /\ \A j \in DOMAIN ps : ps[j] = [list |-> k, idx |-> j]
    /\ \A j \in DOMAIN ps :
           j < Len(ps) =>
               /\ ~ListOf(r, k)[j]._accessible.isNone
               /\ ListOf(r, k)[j]._accessible.val[1] = FALSE

IsPrefix(a, b) == Len(a) <= Len(b) /\ SubSeq(b, 1, Len(a)) = a

\* C26: a call of add_access_point only appends: every provider keeps its
\* key and its previous list is the beginning of its new list, whether the
\* call returns or raises; the seed of a row stays the first prem point.
C26_AppendOnly ==
    [][call'.op = "add" =>
          \A r \in DOMAIN access_manager :
              /\ \A k \in DOMAIN access_manager[r].access_points :
                     /\ k \in DOMAIN access_manager'[r].access_points
                     /\ IsPrefix(access_manager[r].access_points[k],
                                 access_manager'[r].access_points[k])
              /\ access_manager'[r].access_points["prem"][1].oid = r]_vars

\* an add_access_point call left a prem list of three points, and the
\* point it was handed has the identifier of the seed
C26_GrownList ==
    /\ call.op = "add" /\ call.exc = None
    /\ Len(ListOf(1, "prem")) >= 3
    /\ \E i \in DOMAIN call.arg.items :
           call.arg.items[i].id = ListOf(1, "prem")[1].id

\* the records row r of the product holds for the provider in its
\* cloud_access document
JsonRecords(product, provider, r) ==
    IF "cloud_access" \in product.fields /\ provider \in DOMAIN product.json[r]
    THEN product.json[r][provider].items
    ELSE <<>>

\* C27: an extractor returns one list per row of its input, in row order,
\* entry r holding the records of row r; _process_json_column does so
\* without raising, with an empty list for a row that has no cloud_access
\* column or no entry for the provider.
C27_OneListPerRow ==
    /\ (built.op = "json" /\ built.provider \in DOMAIN PROVIDERS) =>
           /\ built.exc = None
           /\ Len(built.out) = Len(built.product.json)
           /\ \A r \in DOMAIN built.out :
                  built.out[r] = JsonRecords(built.product, built.provider, r)
    /\ (built.op = "datalinks" /\ built.provider \in DOMAIN PROVIDERS
           /\ built.exc = None) =>
           Len(built.out) = Len(built.product.json)

\* no callback of the transfer is under way
AllCallbacksReturned == \A t \in Threads : xfer.pc[t] = "idle"

\* C28: in a transfer, whatever the interleaving of the callbacks of the
\* worker threads, the values handed to the progress display increase, and
\* once every callback has returned the value displayed last and
\* bytes_read are the sum of the byte counts the callbacks were handed.
C28_ProgressMonotonic ==
    xfer.state \in {"running", "done"} =>
        /\ \A i, j \in DOMAIN xfer.pb : i < j => xfer.pb[i] < xfer.pb[j]
        /\ AllCallbacksReturned =>
               /\ xfer.bytes_read = xfer.total
               /\ xfer.pb # <<>> => xfer.pb[Len(xfer.pb)] = xfer.total

\* the transfer ended after every thread made all its callbacks
C28_ConcurrentCallbacksDone ==
    /\ xfer.state = "done"
    /\ \A t \in Threads : xfer.calls[t] = MaxCallbacks
    /\ Len(xfer.pb) = NThreads * MaxCallbacks

====
